---- MODULE Spec2Model ----
(***************************************************************************)
(* Model of main.py: a Flask facade over the Notion API.                   *)
(*                                                                         *)
(* Four request handlers (create_table, insert_row, update_table,          *)
(* get_rows) parse a JSON body, validate it, build a vendor payload, call  *)
(* the vendor through safe_notion_call (one retry after a sleep) and shape *)
(* the HTTP response.                                                      *)
(*                                                                         *)
(* Encoding of Python values:                                              *)
(*   - a JSON value at the top level of a body is a tagged record          *)
(*     [t |-> "null"], [t |-> "str", v |-> s], [t |-> "obj", v |-> f];     *)
(*   - a dict is a function, a list is a sequence;                         *)
(*   - None and {} inside a vendor property are both <<>> (both falsy);    *)
(*   - a field name that is lower-cased by the code is a tuple of          *)
(*     one-character strings, so that str.lower() is computed.             *)
(***************************************************************************)
EXTENDS Integers, Sequences, FiniteSets, TLC

\* ------------------------------------------------------------------ bounds
NumSlots == 2        \* request slots served concurrently
MaxFields == 2       \* entries in a "fields" / "values" mapping
MaxRows == 2         \* records in a vendor query answer
MaxRetries == 3      \* largest `retries` argument of a direct wrapper call

Slots == 1..NumSlots

\* ------------------------------------------------------- python helpers
JNull == [t |-> "null"]
JStr(s) == [t |-> "str", v |-> s]
JObj(f) == [t |-> "obj", v |-> f]

\* Python truthiness of a JSON value: None, "" and {} are falsy; the arrays
\* of the model are non-empty.
Truthy(j) ==
    CASE j.t = "null" -> FALSE
      [] j.t = "array" -> TRUE
      [] j.t = "str" -> j.v # ""
      [] j.t = "obj" -> DOMAIN j.v # {}

\* mutant: `data.get(k) is None`, which lets "" and {} through
NotGet_IsNone(data, k) == IF k \in DOMAIN data THEN data[k].t = "null" ELSE TRUE

\* `not data.get(k)` for a dict `data`.
NotGet(data, k) == IF k \in DOMAIN data THEN ~Truthy(data[k]) ELSE TRUE

LowerChar(c) ==
    CASE c = "T" -> "t" [] c = "R" -> "r" [] c = "E" -> "e"
      [] c = "S" -> "s" [] c = "A" -> "a" [] c = "U" -> "u"
      [] c = "N" -> "n" [] c = "O" -> "o"
      [] OTHER -> c

\* str.lower()
Lower(s) == [i \in DOMAIN s |-> LowerChar(s[i])]

\* all functions from a subset of at most n elements of D into R
Mappings(D, R, n) ==
    UNION {[S -> R] : S \in {T \in SUBSET D : Cardinality(T) <= n}}

\* all sequences over S of length at most n
SeqsUpTo(S, n) == UNION {[1..k -> S] : k \in 0..n}

\* ----------------------------------------------------------- input sets
SchemaNames == {"Name", "A", "B"}
Kinds == {"title", "rich_text", "select", "number"}

tree == <<"t", "r", "e", "e">>
status == <<"s", "t", "a", "t", "u", "s">>
InsertNames ==
    { <<"T", "r", "e", "e">>, tree, <<"T", "R", "E", "E">>,
      <<"S", "t", "a", "t", "u", "s">>, status,
      <<"N", "o", "t", "e", "s">> }
Scalars == {"", "Oak"}

Ids == {"id1"}
Msgs == {"e1", "e2"}

TopStrings == {JNull, JStr(""), JStr("T")}
FieldsValues ==
    {JNull, JStr("abc")} \cup {JObj(f) : f \in Mappings(SchemaNames, Kinds, MaxFields)}
ValuesValues ==
    {JNull, JStr("abc")} \cup {JObj(f) : f \in Mappings(InsertNames, Scalars, MaxFields)}

\* `body.kind`: "malformed" is not JSON, "null" is the JSON null, "array" a
\* non-empty JSON array, "object" a JSON object `body.obj`.
NonObjectBodies == {[kind |-> k] : k \in {"malformed", "null", "array"}}
ObjBody(o) == [kind |-> "object", obj |-> o]

\* the key is absent, or present with a value of S
Optional(key, S) == {<<>>} \cup {[x \in {key} |-> j] : j \in S}

CreateBodies ==
    NonObjectBodies \cup
    {ObjBody(a @@ b) : a \in Optional("table", TopStrings),
                       b \in Optional("fields", FieldsValues)}
InsertBodies ==
    NonObjectBodies \cup
    {ObjBody(a @@ b) : a \in Optional("database_id", TopStrings),
                       b \in Optional("values", ValuesValues)}
UpdateBodies ==
    NonObjectBodies \cup
    {ObjBody(a @@ b) : a \in Optional("database_id", TopStrings),
                       b \in Optional("fields", FieldsValues)}
GetBodies ==
    NonObjectBodies \cup
    {ObjBody(a) : a \in Optional("database_id", TopStrings)}

\* vendor property values returned by a database query
TextRun(s) == [text |-> [content |-> s]]
MentionRun == [type |-> "mention", mention |-> "user"]
NoContentRun == [type |-> "text", text |-> <<>>]
Title(rs) == [type |-> "title", title |-> rs]
RichText(rs) == [type |-> "rich_text", rich_text |-> rs]
PropValues ==
    {Title(rs) : rs \in {<<>>, <<TextRun("Oak")>>, <<MentionRun>>, <<NoContentRun>>}}
    \cup {RichText(rs) : rs \in {<<>>, <<TextRun("x")>>, <<MentionRun>>}}
    \cup {[type |-> "select", select |-> s] : s \in {<<>>, [name |-> "Done"]}}
    \cup {[type |-> "number", number |-> 3]}

\* property keys of a vendor record, in the order the record lists them
KeyOrder == << <<"T", "r", "e", "e">>, <<"N", "o", "t", "e", "s">> >>
RowKeys == {KeyOrder[i] : i \in DOMAIN KeyOrder}
\* records: without properties, with one property, with two
VendorRecords ==
    {<<>>}
    \cup {[properties |-> (k :> v)] : k \in RowKeys, v \in PropValues}
    \cup {[properties |-> (KeyOrder[1] :> pv[1]) @@ (KeyOrder[2] :> pv[2])] :
            pv \in { <<Title(<<TextRun("Oak")>>), RichText(<<>>)>>,
                     <<Title(<<MentionRun>>), RichText(<<TextRun("x")>>)>>,
                     <<Title(<<NoContentRun>>), RichText(<<MentionRun>>)>> }}
QueryAnswers ==
    {<<>>} \cup {[results |-> rs] : rs \in SeqsUpTo(VendorRecords, MaxRows)}

\* ------------------------------------------------------- pure functions
\* create_table: the branch on ftype
CreateFragment(ftype) ==
    CASE ftype = "title" -> [title |-> <<>>]
      [] ftype = "rich_text" -> [rich_text |-> <<>>]
      [] ftype = "select" -> [select |-> <<>>]
      [] OTHER -> [rich_text |-> <<>>]

\* create_table: the properties payload, with the "Name" post-pass
CreateProperties(fields) ==
    LET properties == [n \in DOMAIN fields |-> CreateFragment(fields[n])]
    IN  IF ~(\E n \in DOMAIN properties : "title" \in DOMAIN properties[n])
        THEN ("Name" :> [title |-> <<>>]) @@ properties
        ELSE properties

\* update_table: the branch on ftype
UpdateFragment(ftype) ==
    CASE ftype = "title" -> [title |-> <<>>]
      [] ftype = "rich_text" -> [rich_text |-> <<>>]
      [] ftype = "select" -> [select |-> [options |-> <<>>]]
      [] OTHER -> [rich_text |-> <<>>]

UpdateProperties(new_fields) ==
    [n \in DOMAIN new_fields |-> UpdateFragment(new_fields[n])]

\* mutant: the branch compares k itself, without lower()
encodeValue_NoLower(k, v) ==
    IF k = tree THEN [title |-> <<[text |-> [content |-> v]]>>]
    ELSE IF k = status THEN [select |-> [name |-> v]]
    ELSE [rich_text |-> <<[text |-> [content |-> v]]>>]

\* insert_row: the branch on k.lower()
encodeValue(k, v) ==
    IF Lower(k) = tree THEN [title |-> <<[text |-> [content |-> v]]>>]
    ELSE IF Lower(k) = status THEN [select |-> [name |-> v]]
    ELSE [rich_text |-> <<[text |-> [content |-> v]]>>]

InsertProperties(values) == [k \in DOMAIN values |-> encodeValue(k, values[k])]

\* Python results: a value, or the exception raised
Val(v) == [ok |-> TRUE, v |-> v]
Raise(e) == [ok |-> FALSE, err |-> e]

\* runs[0]["text"]["content"]
FirstRunContent(runs) ==
    IF "text" \notin DOMAIN runs[1] THEN Raise("'text'")
    ELSE IF "content" \notin DOMAIN runs[1].text THEN Raise("'content'")
    ELSE Val(runs[1].text.content)

\* mutant: the rich_text branch is missing
decodeValue_NoRichText(value) ==
    CASE value.type = "title" ->
            IF value.title # <<>> THEN FirstRunContent(value.title) ELSE Val("")
      [] value.type = "select" ->
            IF DOMAIN value.select # {} THEN Val(value.select.name) ELSE Val("")
      [] OTHER -> Val("[unsupported type]")

\* get_rows: the branch on value["type"]
decodeValue(value) ==
    CASE value.type = "title" ->
            IF value.title # <<>> THEN FirstRunContent(value.title) ELSE Val("")
      [] value.type = "rich_text" ->
            IF value.rich_text # <<>> THEN FirstRunContent(value.rich_text) ELSE Val("")
      [] value.type = "select" ->
            IF DOMAIN value.select # {} THEN Val(value.select.name) ELSE Val("")
      [] OTHER -> Val("[unsupported type]")

\* result.get("properties", {})
PropsOf(result) == IF "properties" \in DOMAIN result THEN result.properties ELSE <<>>

\* keys of one record whose value fails to decode, in iteration order
BadKeys(props) ==
    SelectSeq(KeyOrder, LAMBDA k : k \in DOMAIN props /\ ~decodeValue(props[k]).ok)

decodeRow(props) == [k \in DOMAIN props |-> decodeValue(props[k]).v]

\* get_rows: the loop over response.get("results", [])
decodeRows(response) ==
    LET results == IF "results" \in DOMAIN response THEN response.results ELSE <<>>
        bad == SelectSeq(results, LAMBDA r : BadKeys(PropsOf(r)) # <<>>)
    IN  IF bad # <<>>
        THEN LET props == PropsOf(bad[1])
             IN  Raise(decodeValue(props[BadKeys(props)[1]]).err)
        ELSE Val([i \in DOMAIN results |-> decodeRow(PropsOf(results[i]))])

\* --------------------------------------------------------------- state
VARIABLES
    NOTION_TOKEN,   \* module global, line 11
    PAGE_ID,        \* module global, line 12
    req,            \* req[r]: the request slot r serves, [handler, body]
    pc,             \* pc[r]: "idle", "recv", "call", "sleep", "done"
    payload,        \* payload[r]: the arguments the handler's closure captured
    retries,        \* retries[r]: argument of the running safe_notion_call
    delay,          \* delay[r]: argument of the running safe_notion_call
    log,            \* log[r]: vendor calls and sleeps of slot r, in order
    resp            \* resp[r]: the HTTP response / wrapper outcome

vars == <<NOTION_TOKEN, PAGE_ID, req, pc, payload, retries, delay, log, resp>>

NoRequest == [handler |-> "none"]
NoResp == [status |-> 0]

Requests ==
    {[handler |-> "create_table", body |-> b] : b \in CreateBodies}
    \cup {[handler |-> "insert_row", body |-> b] : b \in InsertBodies}
    \cup {[handler |-> "update_table", body |-> b] : b \in UpdateBodies}
    \cup {[handler |-> "get_rows", body |-> b] : b \in GetBodies}

\* responses
Json(status_, body_) == [status |-> status_, body |-> body_]
\* an exception no handler catches: Flask answers for it
Aborted(status_, exc) == [status |-> status_, aborted |-> exc]

\* request.get_json(force=True): the parsed body, or BadRequest
get_json(body) ==
    CASE body.kind = "malformed" -> Raise("BadRequest")
      [] body.kind = "null" -> Val(JNull)
      [] body.kind = "array" -> Val([t |-> "array"])
      [] body.kind = "object" -> Val(JObj(body.obj))

\* the part of a handler before safe_notion_call: either the response it
\* returns at once, or the arguments its vendor closure will send
Respond(r_) == [respond |-> TRUE, resp |-> r_]
Prepared(args) == [respond |-> FALSE, args |-> args]

create_table_pre(body) ==
    LET parsed == get_json(body) IN
    IF ~parsed.ok THEN Respond(Aborted(400, parsed.err)) ELSE
    LET data == IF Truthy(parsed.v) THEN parsed.v ELSE JObj(<<>>) IN
    IF data.t # "obj" THEN Respond(Aborted(500, "AttributeError")) ELSE
    IF NotGet(data.v, "table") \/ NotGet(data.v, "fields")
    THEN Respond(Json(400, [error |-> "Missing table name or fields"])) ELSE
    IF data.v.fields.t # "obj"
    THEN Respond(Json(500, [error |-> "no attribute 'items'"])) ELSE
    Prepared([op |-> "databases.create",
              title |-> data.v.table.v,
              properties |-> CreateProperties(data.v.fields.v)])

insert_row_pre(body) ==
    LET parsed == get_json(body) IN
    IF ~parsed.ok THEN Respond(Aborted(400, parsed.err)) ELSE
    LET data == parsed.v IN
    IF data.t # "obj" THEN Respond(Aborted(500, "AttributeError")) ELSE
    IF NotGet(data.v, "database_id") \/ NotGet(data.v, "values")
    THEN Respond(Json(400, [error |-> "Missing database_id or values"])) ELSE
    IF data.v.values.t # "obj"
    THEN Respond(Json(500, [error |-> "no attribute 'items'"])) ELSE
    Prepared([op |-> "pages.create",
              parent |-> [database_id |-> data.v.database_id.v],
              properties |-> InsertProperties(data.v.values.v)])

update_table_pre(body) ==
    LET parsed == get_json(body) IN
    IF ~parsed.ok THEN Respond(Aborted(400, parsed.err)) ELSE
    LET data == parsed.v IN
    IF data.t # "obj" THEN Respond(Aborted(500, "AttributeError")) ELSE
    IF NotGet(data.v, "database_id") \/ NotGet(data.v, "fields")
    THEN Respond(Json(400, [error |-> "Missing database_id or fields"])) ELSE
    IF data.v.fields.t # "obj"
    THEN Respond(Json(500, [error |-> "no attribute 'items'"])) ELSE
    Prepared([op |-> "databases.update",
              database_id |-> data.v.database_id.v,
              properties |-> UpdateProperties(data.v.fields.v)])

get_rows_pre(body) ==
    LET parsed == get_json(body) IN
    IF ~parsed.ok THEN Respond(Aborted(400, parsed.err)) ELSE
    LET data == parsed.v IN
    IF data.t # "obj" THEN Respond(Aborted(500, "AttributeError")) ELSE
    IF NotGet(data.v, "database_id")
    THEN Respond(Json(400, [error |-> "Missing database_id"])) ELSE
    Prepared([op |-> "databases.query", database_id |-> data.v.database_id.v])

\* the part of a handler after safe_notion_call returned `answer`
create_table_post(args, answer) ==
    Json(200, [message |-> "OK", database_id |-> answer.id])

insert_row_post(args, answer) ==
    Json(200, [message |-> "OK", page_id |-> answer.id])

update_table_post(args, answer) ==
    Json(200, [message |-> "Updated", database_id |-> args.database_id])

get_rows_post(args, answer) ==
    LET rows == decodeRows(answer)
    IN  IF rows.ok THEN Json(200, rows.v) ELSE Json(500, [error |-> rows.err])

\* `except Exception as e: return jsonify({"error": str(e)}), 500`
handler_except(e) == Json(500, [error |-> e])

\* what the caller of safe_notion_call does with its result / its exception
OnReturn(h, args, answer) ==
    CASE h = "create_table" -> create_table_post(args, answer)
      [] h = "insert_row" -> insert_row_post(args, answer)
      [] h = "update_table" -> update_table_post(args, answer)
      [] h = "get_rows" -> get_rows_post(args, answer)
      [] OTHER -> [status |-> 0, returned |-> answer]

OnRaise(h, e) ==
    IF h = "direct" THEN [status |-> 0, raised |-> e] ELSE handler_except(e)

\* the answers the vendor gives to a successful call
Answers(h) ==
    IF h = "get_rows" THEN QueryAnswers ELSE {[id |-> i] : i \in Ids}

\* what the vendor client receives: create_db reads PAGE_ID when it runs
Sent(args, page_id) ==
    IF args.op = "databases.create"
    THEN args @@ [parent |-> [type |-> "page_id", page_id |-> page_id]]
    ELSE args

\* ------------------------------------------------------------- actions
DefaultRetries == 1
DefaultDelay == 2

\* a handler from its entry to its early return or to the first vendor call
Enter(r, h, pre) ==
    /\ pc[r] = "recv"
    /\ req[r].handler = h
    /\ IF pre.respond
       THEN /\ resp' = [resp EXCEPT ![r] = pre.resp]
            /\ pc' = [pc EXCEPT ![r] = "done"]
            /\ UNCHANGED <<payload, retries, delay>>
       ELSE /\ payload' = [payload EXCEPT ![r] = pre.args]
            /\ retries' = [retries EXCEPT ![r] = DefaultRetries]
            /\ delay' = [delay EXCEPT ![r] = DefaultDelay]
            /\ pc' = [pc EXCEPT ![r] = "call"]
            /\ UNCHANGED resp
    /\ UNCHANGED <<NOTION_TOKEN, PAGE_ID, req, log>>

\* mutant: the handler stores the table name in the module global
create_table_SetsGlobal(r) ==
    LET pre == create_table_pre(req[r].body) IN
    /\ pc[r] = "recv"
    /\ req[r].handler = "create_table"
    /\ IF pre.respond
       THEN /\ resp' = [resp EXCEPT ![r] = pre.resp]
            /\ pc' = [pc EXCEPT ![r] = "done"]
            /\ UNCHANGED <<payload, retries, delay, PAGE_ID>>
       ELSE /\ payload' = [payload EXCEPT ![r] = pre.args]
            /\ retries' = [retries EXCEPT ![r] = DefaultRetries]
            /\ delay' = [delay EXCEPT ![r] = DefaultDelay]
            /\ pc' = [pc EXCEPT ![r] = "call"]
            /\ PAGE_ID' = pre.args.title
            /\ UNCHANGED resp
    /\ UNCHANGED <<NOTION_TOKEN, req, log>>

create_table(r) == Enter(r, "create_table", create_table_pre(req[r].body))
insert_row(r) == Enter(r, "insert_row", insert_row_pre(req[r].body))
update_table(r) == Enter(r, "update_table", update_table_pre(req[r].body))
get_rows(r) == Enter(r, "get_rows", get_rows_pre(req[r].body))

\* safe_notion_call: func() returns `answer`; the caller continues
CallOk(r, answer) ==
    /\ pc[r] = "call"
    /\ log' = [log EXCEPT ![r] = Append(@,
                 [ev |-> "call", args |-> Sent(payload[r], PAGE_ID),
                  ok |-> TRUE, out |-> answer])]
    /\ resp' = [resp EXCEPT ![r] = OnReturn(req[r].handler, payload[r], answer)]
    /\ pc' = [pc EXCEPT ![r] = "done"]
    /\ UNCHANGED <<NOTION_TOKEN, PAGE_ID, req, payload, retries, delay>>

\* mutant: when the retries are used up the first failure is raised
CallFail_RaiseFirst(r, e) ==
    /\ pc[r] = "call"
    /\ log' = [log EXCEPT ![r] = Append(@,
                 [ev |-> "call", args |-> Sent(payload[r], PAGE_ID),
                  ok |-> FALSE, out |-> e])]
    /\ IF retries[r] > 0
       THEN /\ pc' = [pc EXCEPT ![r] = "sleep"]
            /\ UNCHANGED resp
       ELSE /\ resp' = [resp EXCEPT ![r] =
                        OnRaise(req[r].handler, log'[r][1].out)]
            /\ pc' = [pc EXCEPT ![r] = "done"]
    /\ UNCHANGED <<NOTION_TOKEN, PAGE_ID, req, payload, retries, delay>>

\* safe_notion_call: func() raises `e`; retry after a sleep, or re-raise
CallFail(r, e) ==
    /\ pc[r] = "call"
    /\ log' = [log EXCEPT ![r] = Append(@,
                 [ev |-> "call", args |-> Sent(payload[r], PAGE_ID),
                  ok |-> FALSE, out |-> e])]
    /\ IF retries[r] > 0
       THEN /\ pc' = [pc EXCEPT ![r] = "sleep"]
            /\ UNCHANGED resp
       ELSE /\ resp' = [resp EXCEPT ![r] = OnRaise(req[r].handler, e)]
            /\ pc' = [pc EXCEPT ![r] = "done"]
    /\ UNCHANGED <<NOTION_TOKEN, PAGE_ID, req, payload, retries, delay>>

\* safe_notion_call: time.sleep(delay), then the recursive call
Sleep(r) ==
    /\ pc[r] = "sleep"
    /\ log' = [log EXCEPT ![r] = Append(@, [ev |-> "sleep", secs |-> delay[r]])]
    /\ retries' = [retries EXCEPT ![r] = @ - 1]
    /\ pc' = [pc EXCEPT ![r] = "call"]
    /\ UNCHANGED <<NOTION_TOKEN, PAGE_ID, req, payload, delay, resp>>

\* ------------------------------------------------------ specifications
InitGlobals ==
    /\ NOTION_TOKEN = "secret"
    /\ PAGE_ID = "page1"

InitLocals ==
    /\ payload = [r \in Slots |-> <<>>]
    /\ retries = [r \in Slots |-> 0]
    /\ delay = [r \in Slots |-> 0]
    /\ log = [r \in Slots |-> <<>>]
    /\ resp = [r \in Slots |-> NoResp]

\* one request at a time: slot 1 serves any request
Init ==
    /\ InitGlobals
    /\ InitLocals
    /\ \E q \in Requests : req = [r \in Slots |-> IF r = 1 THEN q ELSE NoRequest]
    /\ pc = [r \in Slots |-> IF r = 1 THEN "recv" ELSE "idle"]

Step(r) ==
    \/ create_table(r)
    \/ insert_row(r)
    \/ update_table(r)
    \/ get_rows(r)
    \/ \E answer \in Answers(req[r].handler) : CallOk(r, answer)
    \/ \E e \in Msgs : CallFail(r, e)
    \/ Sleep(r)

Next == \E r \in Slots : Step(r)

Spec == Init /\ [][Next]_vars

\* direct calls safe_notion_call(func, retries=n, delay=d), next to requests
Delays == {0, 2}
DirectCalls ==
    {[handler |-> "direct", retries |-> n, delay |-> d] :
        n \in 0..MaxRetries, d \in Delays}

InitRetry ==
    /\ InitGlobals
    /\ \E q \in DirectCalls :
        /\ req = [r \in Slots |-> IF r = 1 THEN q ELSE NoRequest]
        /\ retries = [r \in Slots |-> IF r = 1 THEN q.retries ELSE 0]
        /\ delay = [r \in Slots |-> IF r = 1 THEN q.delay ELSE 0]
    /\ pc = [r \in Slots |-> IF r = 1 THEN "call" ELSE "idle"]
    /\ payload = [r \in Slots |-> IF r = 1 THEN [op |-> "func"] ELSE <<>>]
    /\ log = [r \in Slots |-> <<>>]
    /\ resp = [r \in Slots |-> NoResp]

\* a request of each handler, valid and invalid
ConcRequests ==
    { [handler |-> "create_table",
       body |-> ObjBody([table |-> JStr("T"), fields |-> JObj([A |-> "select"])])],
      [handler |-> "create_table", body |-> ObjBody([table |-> JStr("T")])],
      [handler |-> "insert_row",
       body |-> ObjBody([database_id |-> JStr("T"),
                         values |-> JObj(<<"T", "r", "e", "e">> :> "Oak")])],
      [handler |-> "update_table",
       body |-> ObjBody([database_id |-> JStr("T"), fields |-> JObj([A |-> "title"])])],
      [handler |-> "get_rows", body |-> ObjBody([database_id |-> JStr("T")])],
      [handler |-> "get_rows", body |-> [kind |-> "null"]] }

ConcAnswers(h) ==
    IF h = "get_rows"
    THEN {[results |-> rs] :
            rs \in SeqsUpTo({[properties |-> (KeyOrder[1] :> v)] :
                                v \in {Title(<<TextRun("Oak")>>), Title(<<MentionRun>>)}}, 1)}
    ELSE Answers(h)

\* every slot serves a request, interleaved step by step
InitConc ==
    /\ InitGlobals
    /\ InitLocals
    /\ req \in [Slots -> ConcRequests]
    /\ pc = [r \in Slots |-> "recv"]

StepConc(r) ==
    \/ create_table(r)
    \/ insert_row(r)
    \/ update_table(r)
    \/ get_rows(r)
    \/ \E answer \in ConcAnswers(req[r].handler) : CallOk(r, answer)
    \/ \E e \in Msgs : CallFail(r, e)
    \/ Sleep(r)

NextConc == \E r \in Slots : StepConc(r)

SpecConc == InitConc /\ [][NextConc]_vars

\* slot 1 alone serves one of the requests above
InitOne ==
    /\ InitGlobals
    /\ InitLocals
    /\ \E q \in ConcRequests : req = [r \in Slots |-> IF r = 1 THEN q ELSE NoRequest]
    /\ pc = [r \in Slots |-> IF r = 1 THEN "recv" ELSE "idle"]

\* the wrapper called directly or by a handler; func returns or raises and
\* time.sleep returns, so the wrapper keeps running
SpecRetry == (InitRetry \/ InitOne) /\ [][NextConc]_vars /\ WF_vars(NextConc)

\* ------------------------------------------------------------ histories
Handlers == {"create_table", "insert_row", "update_table", "get_rows"}
IsCall(e) == e.ev = "call"
IsSleep(e) == e.ev = "sleep"
Calls(r) == SelectSeq(log[r], IsCall)
Sleeps(r) == SelectSeq(log[r], IsSleep)
LastCall(r) == Calls(r)[Len(Calls(r))]
Built(r) == "op" \in DOMAIN payload[r]

\* ---------------------------------------------------------------- claims
\* the values Python treats as false
FalsyValues == {JNull, JStr(""), JObj(<<>>)}
MissingOrFalsy(o, key) == key \notin DOMAIN o \/ o[key] \in FalsyValues

\* C1: in every handler, a vendor call that fails on the first attempt and
\* again on the retry ends in HTTP 500 carrying the second failure's
\* message, and one that fails once and succeeds on the retry ends in 200.
C1_RetryOutcome ==
    \A r \in Slots :
        (pc[r] = "done" /\ req[r].handler \in Handlers /\ Len(Calls(r)) = 2) =>
            /\ ~Calls(r)[2].ok =>
                   resp[r] = Json(500, [error |-> Calls(r)[2].out])
            /\ Calls(r)[2].ok => resp[r].status = 200

\* C2: a create_table request whose body is an object (or null, read as an
\* empty object) with `table` or `fields` missing or falsy is answered 400,
\* and at no point of its execution is the vendor called or a sleep taken.
C2_Case(r) ==
    /\ req[r].handler = "create_table"
    /\ \/ req[r].body.kind = "null"
       \/ /\ req[r].body.kind = "object"
          /\ \/ MissingOrFalsy(req[r].body.obj, "table")
             \/ MissingOrFalsy(req[r].body.obj, "fields")

C2_MissingIs400NoVendorCall ==
    \A r \in Slots :
        C2_Case(r) =>
            /\ log[r] = <<>>
            /\ pc[r] \in {"recv", "done"}
            /\ pc[r] = "done" => resp[r].status = 400

C2_Witness ==
    \E r \in Slots :
        /\ C2_Case(r)
        /\ req[r].body.kind = "object"
        /\ "table" \in DOMAIN req[r].body.obj
        /\ req[r].body.obj.table = JStr("T")
        /\ "fields" \in DOMAIN req[r].body.obj
        /\ req[r].body.obj.fields = JObj(<<>>)
        /\ pc[r] = "done"
        /\ resp[r] = Json(400, [error |-> "Missing table name or fields"])

\* the declared fields of a create_table request that built a payload
Declared(r) == req[r].body.obj.fields.v
TitleFragment == [title |-> <<>>]
ExpectedKind(kind) ==
    CASE kind = "title" -> "title"
      [] kind = "select" -> "select"
      [] OTHER -> "rich_text"

\* C3: when no field is declared "title", the properties sent hold a field
\* "Name" of title kind and every declared field with the kind its
\* declaration maps to, a declared non-title "Name" included.
C3_NameAddedDeclaredKept ==
    \A r \in Slots :
        (/\ req[r].handler = "create_table"
         /\ Built(r)
         /\ \A n \in DOMAIN Declared(r) : Declared(r)[n] # "title") =>
            LET properties == payload[r].properties IN
            /\ "Name" \in DOMAIN properties
            /\ properties["Name"] = TitleFragment
            /\ \A n \in DOMAIN Declared(r) :
                /\ n \in DOMAIN properties
                /\ DOMAIN properties[n] = {ExpectedKind(Declared(r)[n])}

\* C4: every create_table call that reaches the vendor sends a schema with
\* exactly one field of title kind.
TitleFields(properties) ==
    {n \in DOMAIN properties : "title" \in DOMAIN properties[n]}

C4_ExactlyOneTitle ==
    \A r \in Slots :
        req[r].handler = "create_table" =>
            \A i \in DOMAIN Calls(r) :
                Cardinality(TitleFields(Calls(r)[i].args.properties)) = 1

\* the record values of an insert request that built a payload
Values(r) == req[r].body.obj.values.v
TreeCasings == { <<"T", "r", "e", "e">>, <<"t", "r", "e", "e">>, <<"T", "R", "E", "E">> }
StatusCasings == { <<"S", "t", "a", "t", "u", "s">>, <<"s", "t", "a", "t", "u", "s">> }

\* C5: the insert payload has exactly one entry per input field, under the
\* field's original name: a title value wrapping the value for any casing
\* of "tree", a select value naming it for any casing of "status", a
\* rich-text value wrapping it for every other name.
C5_EncodeByLowerName ==
    \A r \in Slots :
        (req[r].handler = "insert_row" /\ Built(r)) =>
            LET properties == payload[r].properties IN
            /\ DOMAIN properties = DOMAIN Values(r)
            /\ \A k \in DOMAIN Values(r) :
                properties[k] =
                    IF k \in TreeCasings
                    THEN [title |-> <<[text |-> [content |-> Values(r)[k]]]>>]
                    ELSE IF k \in StatusCasings
                    THEN [select |-> [name |-> Values(r)[k]]]
                    ELSE [rich_text |-> <<[text |-> [content |-> Values(r)[k]]]>>]

C5_Witness ==
    \E r \in Slots :
        /\ req[r].handler = "insert_row"
        /\ Built(r)
        /\ DOMAIN Values(r) = { <<"T", "R", "E", "E">>, <<"S", "t", "a", "t", "u", "s">> }
        /\ "title" \in DOMAIN payload[r].properties[<<"T", "R", "E", "E">>]
        /\ "select" \in DOMAIN payload[r].properties[<<"S", "t", "a", "t", "u", "s">>]
        /\ Calls(r) # <<>>

\* what the vendor stores for a property value sent by insert: the value
\* under a type tag naming its kind
Stored(value) == [type |-> CHOOSE t \in DOMAIN value : TRUE] @@ value

\* C6: decoding, as get_rows does, the stored form of each property that
\* insert encoded gives back the original scalar string, the empty string
\* included.
C6_RoundTrip ==
    \A r \in Slots :
        (req[r].handler = "insert_row" /\ Built(r)) =>
            \A k \in DOMAIN Values(r) :
                decodeValue(Stored(payload[r].properties[k])) = Val(Values(r)[k])

C6_Witness ==
    \E r \in Slots :
        /\ req[r].handler = "insert_row"
        /\ Built(r)
        /\ <<"S", "t", "a", "t", "u", "s">> \in DOMAIN Values(r)
        /\ Values(r)[<<"S", "t", "a", "t", "u", "s">>] = ""
        /\ <<"N", "o", "t", "e", "s">> \in DOMAIN Values(r)
        /\ Values(r)[<<"N", "o", "t", "e", "s">>] = "Oak"
        /\ decodeValue(Stored(payload[r].properties[<<"S", "t", "a", "t", "u", "s">>])) = Val("")
        /\ decodeValue(Stored(payload[r].properties[<<"N", "o", "t", "e", "s">>])) = Val("Oak")

\* the row the claim expects for one vendor record
FirstText(runs) ==
    IF runs = <<>> THEN ""
    ELSE IF "text" \notin DOMAIN runs[1] THEN ""
    ELSE IF "content" \notin DOMAIN runs[1].text THEN ""
    ELSE runs[1].text.content

ExpectedScalar(value) ==
    CASE value.type = "title" -> FirstText(value.title)
      [] value.type = "rich_text" -> FirstText(value.rich_text)
      [] value.type = "select" ->
            IF "name" \in DOMAIN value.select THEN value.select.name ELSE ""
      [] OTHER -> "[unsupported type]"

ExpectedRows(answer) ==
    LET results == IF "results" \in DOMAIN answer THEN answer.results ELSE <<>>
    IN  [i \in DOMAIN results |->
            [k \in DOMAIN PropsOf(results[i]) |->
                ExpectedScalar(PropsOf(results[i])[k])]]

\* C7: a successful vendor query is always answered 200 with one decoded
\* row per record, in vendor order; empty or absent sub-fields decode to "",
\* other kinds to the sentinel, and decoding never causes a 500.
C7_DecodeNeverFails ==
    \A r \in Slots :
        (req[r].handler = "get_rows" /\ pc[r] = "done"
            /\ Calls(r) # <<>> /\ LastCall(r).ok) =>
            resp[r] = Json(200, ExpectedRows(LastCall(r).out))

\* the fixed message of each handler's validation failure
FixedMessage(h) ==
    CASE h = "create_table" -> "Missing table name or fields"
      [] h = "insert_row" -> "Missing database_id or values"
      [] h = "update_table" -> "Missing database_id or fields"
      [] h = "get_rows" -> "Missing database_id"

RequiredKeys(h) ==
    CASE h = "create_table" -> {"table", "fields"}
      [] h = "insert_row" -> {"database_id", "values"}
      [] h = "update_table" -> {"database_id", "fields"}
      [] h = "get_rows" -> {"database_id"}

\* C8: in every handler a body that is malformed or is not an object is
\* read as an empty object, and a request with a required key missing or
\* falsy is answered 400 with the handler's fixed message, without a
\* vendor call; none ends in an unhandled failure or a 500.
C8_Case(r) ==
    /\ req[r].handler \in Handlers
    /\ \/ req[r].body.kind # "object"
       \/ \E key \in RequiredKeys(req[r].handler) :
            MissingOrFalsy(req[r].body.obj, key)

C8_InvalidIs400 ==
    \A r \in Slots :
        C8_Case(r) =>
            /\ log[r] = <<>>
            /\ pc[r] = "done" =>
                /\ resp[r].status = 400
                /\ req[r].body.kind # "malformed" =>
                    resp[r] = Json(400, [error |-> FixedMessage(req[r].handler)])

\* the arguments safe_notion_call was entered with
N0(r) == IF req[r].handler = "direct" THEN req[r].retries ELSE 1
D0(r) == IF req[r].handler = "direct" THEN req[r].delay ELSE 2
Started(r) == pc[r] \in {"call", "sleep", "done"} /\ Built(r)

C9_Inv(r) ==
    LET n == Len(log[r]) IN
    /\ Len(Calls(r)) <= N0(r) + 1
    /\ \A i \in 1..n :
        /\ i % 2 = 1 => IsCall(log[r][i])
        /\ i % 2 = 0 => IsSleep(log[r][i]) /\ log[r][i].secs = D0(r)
        /\ (IsCall(log[r][i]) /\ i < n) => ~log[r][i].ok
    /\ pc[r] = "call" => n % 2 = 0
    /\ pc[r] = "sleep" => n % 2 = 1
    /\ pc[r] = "done" =>
        /\ IsCall(log[r][n])
        /\ log[r][n].ok =>
            (req[r].handler = "direct" =>
                resp[r] = [status |-> 0, returned |-> log[r][n].out])
        /\ ~log[r][n].ok =>
            /\ Len(Calls(r)) = N0(r) + 1
            /\ IF req[r].handler = "direct"
               THEN resp[r] = [status |-> 0, raised |-> log[r][n].out]
               ELSE resp[r] = Json(500, [error |-> log[r][n].out])
    /\ req[r].handler \in Handlers => Len(Calls(r)) <= 2 /\ Len(Sleeps(r)) <= 1

Terminated == \A r \in Slots : pc[r] \in {"idle", "done"}

\* C9: safe_notion_call(func, retries=n, delay=d) terminates after at most
\* n+1 invocations of func: it returns the first success and invokes func
\* no further, sleeps d exactly once between a failed invocation and the
\* next and never after the last, and when all n+1 fail it raises the last
\* failure; a handler (n=1) makes at most 2 vendor calls and 1 sleep.
C9_BoundedRetry ==
    /\ [](\A r \in Slots : Started(r) => C9_Inv(r))
    /\ <>[]Terminated

C9_Witness ==
    \E r \in Slots :
        /\ req[r].handler = "direct"
        /\ req[r].retries = 2
        /\ pc[r] = "done"
        /\ Len(Calls(r)) = 3
        /\ Len(Sleeps(r)) = 2
        /\ ~Calls(r)[3].ok
        /\ Calls(r)[1].out = "e1"
        /\ Calls(r)[3].out = "e2"
        /\ resp[r] = [status |-> 0, raised |-> "e2"]

SameOutcomes(r1, r2) ==
    /\ Len(Calls(r1)) = Len(Calls(r2))
    /\ \A i \in DOMAIN Calls(r1) :
        /\ Calls(r1)[i].ok = Calls(r2)[i].ok
        /\ Calls(r1)[i].out = Calls(r2)[i].out

\* C10: under any interleaving of requests no handler writes the process
\* globals, every create call is sent under the startup parent id, and two
\* requests with the same body send the same arguments and, given the same
\* vendor answers, return the same response whatever ran in between.
C10_NoSharedState ==
    /\ NOTION_TOKEN = "secret"
    /\ PAGE_ID = "page1"
    /\ \A r \in Slots : \A i \in DOMAIN Calls(r) :
        Calls(r)[i].args.op = "databases.create" =>
            Calls(r)[i].args.parent.page_id = "page1"
    /\ \A r1, r2 \in Slots :
        req[r1] = req[r2] =>
            /\ (Built(r1) /\ Built(r2)) => payload[r1] = payload[r2]
            /\ \A i \in DOMAIN Calls(r1) \cap DOMAIN Calls(r2) :
                Calls(r1)[i].args = Calls(r2)[i].args
            /\ (pc[r1] = "done" /\ pc[r2] = "done" /\ SameOutcomes(r1, r2)) =>
                resp[r1] = resp[r2]

C10_Witness ==
    \E r1, r2 \in Slots :
        /\ r1 # r2
        /\ req[r1] = req[r2]
        /\ req[r1].handler = "create_table"
        /\ pc[r1] = "sleep"
        /\ pc[r2] = "done"
        /\ Len(Calls(r2)) = 2
        /\ resp[r2].status = 200

====
